---------------------------- MODULE Spec2Model ----------------------------
(***************************************************************************)
(* Model of tools/statvar_importer/schema/schema_spell_checker.py.         *)
(*                                                                         *)
(* Python strings are modelled as sequences of one-character strings, so   *)
(* that tokenization, prefix tests and joins are computed character by     *)
(* character.  A Python dict is modelled as a sequence of <<key, value>>   *)
(* pairs with distinct keys (insertion order is the iteration order).      *)
(***************************************************************************)
EXTENDS Integers, Sequences, FiniteSets, TLC

VARIABLES
    pc,               \* position of the call under check
    prop,             \* argument `prop` of should_ignore_spell_pv
    value,            \* argument `value` of get_words / should_ignore_spell_pv
    config,           \* argument `config` (a ConfigMap, or None)
    node,             \* argument `node` of spell_check_pvs
    spell_checker,    \* the SpellChecker's recognized-word set (or None)
    env,              \* the outside world: flags, files, base lexicon, writer
    input_files,      \* spell_check_mcf: the input files still to be checked
    nodes_misspelled, \* spell_check_mcf: the error records collected so far
    vocab_log,        \* how often a SpellChecker was built, loaded and queried
    ret               \* what the call returned, or that it raised

vars == <<pc, prop, value, config, node, spell_checker, env, input_files,
          nodes_misspelled, vocab_log, ret>>

\* Python's None, an unset ConfigMap key, a raised exception, an unused variable.
None == [isnone |-> TRUE]
IsNone(x) == "isnone" \in DOMAIN x
Raised == "Raised"
Idle == "Idle"

-----------------------------------------------------------------------------
(* Characters *)

UpperChars ==
    {"A","B","C","D","E","F","G","H","I","J","K","L","M",
     "N","O","P","Q","R","S","T","U","V","W","X","Y","Z"}

LowerChars ==
    {"a","b","c","d","e","f","g","h","i","j","k","l","m",
     "n","o","p","q","r","s","t","u","v","w","x","y","z"}

DigitChars == {"0","1","2","3","4","5","6","7","8","9"}

\* str.isupper() of one character
isupper(c) == c \in UpperChars

\* the class [A-Za-z]
IsAsciiLetter(c) == c \in UpperChars \cup LowerChars

\* the class \w of the re module
IsWordChar(c) == c \in UpperChars \cup LowerChars \cup DigitChars \cup {"_"}

\* s1 + s2 + ... for a sequence of strings
RECURSIVE Concat(_)
Concat(ss) == IF ss = <<>> THEN <<>> ELSE Head(ss) \o Concat(Tail(ss))

\* `sub in s` for strings
Contains(s, sub) ==
    \E i \in 1..(Len(s) - Len(sub) + 1) : SubSeq(s, i, i + Len(sub) - 1) = sub

-----------------------------------------------------------------------------
(* get_words *)

\* re.sub('[^A-Za-z]', ' ', value)
SubNonLetters(s) == [i \in 1..Len(s) |-> IF IsAsciiLetter(s[i]) THEN s[i] ELSE " "]

\* s.split(' '): the pieces between single spaces, empty pieces included
RECURSIVE SplitOn(_, _, _)
SplitOn(s, sep, cur) ==
    IF s = <<>> THEN <<cur>>
    ELSE IF Head(s) = sep THEN <<cur>> \o SplitOn(Tail(s), sep, <<>>)
    ELSE SplitOn(Tail(s), sep, Append(cur, Head(s)))

\* [m.start() + 1 for m in re.finditer('[^A-Z][A-Z0-9]', w)], scanning from
\* 0-based offset i; matches do not overlap
RECURSIVE CamelMatches(_, _)
CamelMatches(w, i) ==
    IF i + 2 > Len(w) THEN <<>>
    ELSE IF w[i + 1] \notin UpperChars /\ w[i + 2] \in UpperChars \cup DigitChars
         THEN <<i + 1>> \o CamelMatches(w, i + 2)
         ELSE CamelMatches(w, i + 1)

\* split_pos of one token w
SplitPos(w) == <<0>> \o CamelMatches(w, 0) \o <<Len(w)>>

\* [w[start:end] for start, end in zip(split_pos, split_pos[1:])]
CamelSplit(w) ==
    LET sp == SplitPos(w)
    IN  [k \in 1..(Len(sp) - 1) |-> SubSeq(w, sp[k] + 1, sp[k + 1])]

\* the first loop of get_words: empty tokens skipped, the others split
RECURSIVE SplitTokens(_)
SplitTokens(tokens) ==
    IF tokens = <<>> THEN <<>>
    ELSE IF Head(tokens) = <<>> THEN SplitTokens(Tail(tokens))
    ELSE CamelSplit(Head(tokens)) \o SplitTokens(Tail(tokens))

\* len(w) >= 2 and not (w[0].isupper() and w[1].isupper())
IsTextWord(w) == Len(w) >= 2 /\ ~(isupper(w[1]) /\ isupper(w[2]))

\* a get_words that forgets to remove the acronyms
get_words_keep_acronyms(s) ==
    SelectSeq(SplitTokens(SplitOn(SubNonLetters(s), " ", <<>>)),
              LAMBDA w : Len(w) >= 2)

get_words(s) ==
    SelectSeq(SplitTokens(SplitOn(SubNonLetters(s), " ", <<>>)), IsTextWord)

-----------------------------------------------------------------------------
(* Specification SpecWords: get_words applied to every short string *)

MaxLen == 4

WordsAlphabet == {"a", "b", "A", "B", "1", "_"}

Strings(alphabet, n) == UNION {[1..k -> alphabet] : k \in 0..n}

InitWords ==
    /\ pc = "start"
    /\ value \in Strings(WordsAlphabet, MaxLen)
    /\ prop = Idle /\ config = Idle /\ node = Idle
    /\ spell_checker = Idle /\ env = Idle
    /\ input_files = Idle /\ nodes_misspelled = Idle /\ vocab_log = Idle
    /\ ret = Idle

GetWords ==
    /\ pc = "start"
    /\ ret' = get_words(value)
    /\ pc' = "done"
    /\ UNCHANGED <<prop, value, config, node, spell_checker, env, input_files,
                   nodes_misspelled, vocab_log>>

SpecWords == InitWords /\ [][GetWords]_vars

\* A cut falls immediately before position i of s (1-based): both s[i-1] and
\* s[i] belong to one token, s[i] is uppercase or a digit, s[i-1] is not
\* uppercase.
CutBefore(s, i) ==
    /\ i >= 2 /\ i <= Len(s)
    /\ IsAsciiLetter(s[i - 1]) /\ IsAsciiLetter(s[i])
    /\ s[i] \in UpperChars \cup DigitChars
    /\ s[i - 1] \notin UpperChars

\* s[a..b] is one sub-word of s: letters only, bounded on each side by the
\* end of the string, a non-letter or a cut, with no cut inside.
IsSubWord(s, a, b) ==
    /\ 1 <= a /\ a <= b /\ b <= Len(s)
    /\ \A i \in a..b : IsAsciiLetter(s[i])
    /\ (a = 1 \/ ~IsAsciiLetter(s[a - 1]) \/ CutBefore(s, a))
    /\ (b = Len(s) \/ ~IsAsciiLetter(s[b + 1]) \/ CutBefore(s, b + 1))
    /\ \A i \in (a + 1)..b : ~CutBefore(s, i)

\* the sub-words that survive: at least 2 letters, not starting with two capitals
KeptSubWords(s) ==
    {ab \in (1..Len(s)) \X (1..Len(s)) :
        /\ IsSubWord(s, ab[1], ab[2])
        /\ ab[2] - ab[1] + 1 >= 2
        /\ ~(s[ab[1]] \in UpperChars /\ s[ab[1] + 1] \in UpperChars)}

\* C9: get_words returns, left to right with duplicates and case preserved,
\* exactly the sub-words of the input (non-letters separate tokens, a token is
\* cut before every uppercase-or-digit character preceded by a non-uppercase
\* one) that have at least 2 letters and do not begin with two uppercase
\* letters.
C9_GetWordsAreKeptSubWords ==
    pc = "done" =>
        LET kept == KeptSubWords(value)
        IN  /\ Len(ret) = Cardinality(kept)
            /\ \A ab \in kept :
                   ret[Cardinality({x \in kept : x[1] <= ab[1]})]
                       = SubSeq(value, ab[1], ab[2])

\* C9 witness: a camel-case string was cut into two words and one of its
\* pieces was dropped as an acronym or as too short.
C9_Witness ==
    /\ pc = "done"
    /\ Len(ret) = 1
    /\ Len(value) = 4
    /\ value[1] = "a" /\ value[2] = "B" /\ value[3] = "a" /\ value[4] = "A"

-----------------------------------------------------------------------------
(* ConfigMap, property names, values *)

ConfigKeys ==
    {"spell_check_props", "spell_check_ignore_props", "spell_check_text_only",
     "spell_allowlist", "spell_allow_words", "spell_check_output"}

\* a key of a ConfigMap: not set, or set to a value
Unset == [isset |-> FALSE]
SetTo(x) == [isset |-> TRUE, val |-> x]

\* ConfigMap(): no key set
EmptyConfigMap == [k \in ConfigKeys |-> Unset]

\* `not config`: only None is falsy (a ConfigMap object is always truthy)
IsFalsy(c) == IsNone(c)

\* config.get(key, default)
config_get(c, key, default) == IF c[key].isset THEN c[key].val ELSE default

\* A value of a node: a Python str, or a list of str.
Str(s) == [type |-> "str", val |-> s]
List(items) == [type |-> "list", val |-> items]

\* isinstance(value, str)
IsStr(v) == v.type = "str"

\* repr() of a str that holds no quote or backslash: the text in single quotes
py_repr(s) == <<"'">> \o s \o <<"'">>

\* ', '.join(items)
RECURSIVE JoinCommaSpace(_)
JoinCommaSpace(items) ==
    IF items = <<>> THEN <<>>
    ELSE IF Len(items) = 1 THEN items[1]
    ELSE items[1] \o <<",", " ">> \o JoinCommaSpace(Tail(items))

\* str(value): a str is itself, a list is "[" + ', '.join(repr(x)) + "]"
py_str(v) ==
    IF IsStr(v) THEN v.val
    ELSE <<"[">> \o JoinCommaSpace([i \in 1..Len(v.val) |-> py_repr(v.val[i])])
         \o <<"]">>

P_nameWithLanguage == <<"n","a","m","e","W","i","t","h","L","a","n","g","u","a","g","e">>
P_url == <<"u","r","l">>
P_descriptionUrl == <<"d","e","s","c","r","i","p","t","i","o","n","U","r","l">>
P_license == <<"l","i","c","e","n","s","e">>
P_sourceDataUrl == <<"s","o","u","r","c","e","D","a","t","a","U","r","l">>
P_cachedSourceDataUrl == <<"c","a","c","h","e","d","S","o","u","r","c","e","D","a","t","a","U","r","l">>
P_dataTransformationLogic == <<"d","a","t","a","T","r","a","n","s","f","o","r","m","a","t","i","o","n","L","o","g","i","c">>
P_geoJsonCoordinates == <<"g","e","o","J","s","o","n","C","o","o","r","d","i","n","a","t","e","s">>
P_geoJsonCoodinatesDP1 == <<"g","e","o","J","s","o","n","C","o","o","d","i","n","a","t","e","s","D","P","1">>
P_geoJsonCoodinatesDP2 == <<"g","e","o","J","s","o","n","C","o","o","d","i","n","a","t","e","s","D","P","2">>
P_geoJsonCoodinatesDP3 == <<"g","e","o","J","s","o","n","C","o","o","d","i","n","a","t","e","s","D","P","3">>
P_keyString == <<"k","e","y","S","t","r","i","n","g">>

DEFAULT_IGNORE_SPELL_PROPS ==
    {P_nameWithLanguage, P_url, P_descriptionUrl, P_license, P_sourceDataUrl,
     P_cachedSourceDataUrl, P_dataTransformationLogic, P_geoJsonCoordinates,
     P_geoJsonCoodinatesDP1, P_geoJsonCoodinatesDP2, P_geoJsonCoodinatesDP3,
     P_keyString}

\* pv_utils.is_valid_property: a property name begins with a lowercase letter
is_valid_property(p) == p # <<>> /\ p[1] \in LowerChars

-----------------------------------------------------------------------------
(* should_ignore_spell_pv *)

\* re.search(r'\bE[0-9]+\b', s): an E at a word boundary, a run of digits after
\* it, and a word boundary after the run
SearchENumber(s) ==
    \E i \in 1..Len(s) : \E j \in (i + 1)..Len(s) :
        /\ s[i] = "E"
        /\ i = 1 \/ ~IsWordChar(s[i - 1])
        /\ \A k \in (i + 1)..j : s[k] \in DigitChars
        /\ j = Len(s) \/ ~IsWordChar(s[j + 1])

\* lines 164-185: the checks made on a non-empty str value
IgnoreValue(v, c) ==
    \/ /\ Contains(v, <<"d", "c", "/">>)
       /\ \A i \in 1..Len(v) : ~isupper(v[i])
    \/ Contains(v, <<"@">>)
    \/ /\ config_get(c, "spell_check_text_only", FALSE) = TRUE
       /\ v[1] # "\""
    \/ SearchENumber(v)

should_ignore_spell_pv(p, v, cfg) ==
    LET c == IF IsFalsy(cfg) THEN EmptyConfigMap ELSE cfg
        \* config.get('spell_check_ignore_props') is None when the key is unset
        ignore_props ==
            IF ~c["spell_check_ignore_props"].isset
            THEN DEFAULT_IGNORE_SPELL_PROPS
            ELSE c["spell_check_ignore_props"].val
        spell_props == config_get(c, "spell_check_props", {})
    IN  IF p = <<>> THEN TRUE
        ELSE IF p[1] = "#" THEN TRUE
        ELSE IF ~is_valid_property(p) THEN TRUE
        ELSE IF p \in ignore_props THEN TRUE
        ELSE IF spell_props # {} /\ p \notin spell_props THEN TRUE
        ELSE IF IsStr(v) /\ v.val # <<>> THEN IgnoreValue(v.val, c)
        ELSE FALSE

-----------------------------------------------------------------------------
(* Specification SpecIgnore: should_ignore_spell_pv on every short value *)

MaxValueLen == 4

P_name == <<"n","a","m","e">>
P_description == <<"d","e","s","c","r","i","p","t","i","o","n">>

\* empty, a comment, an invalid name, a default-ignored name, two plain names
IgnoreProps == {<<>>, <<"#", "a">>, <<"A", "b">>, P_url, P_name, P_description}

IgnoreAlphabet == {"d", "c", "/", "E", "1", "@", "\""}

IgnoreConfigs ==
    {[EmptyConfigMap EXCEPT !["spell_check_ignore_props"] = ig,
                            !["spell_check_props"] = sp,
                            !["spell_check_text_only"] = to] :
        ig \in {Unset, SetTo({}), SetTo({P_name})},
        sp \in {Unset, SetTo({P_name})},
        to \in {Unset, SetTo(TRUE)}}

InitIgnore ==
    /\ pc = "start"
    /\ prop \in IgnoreProps
    /\ value \in {Str(s) : s \in Strings(IgnoreAlphabet, MaxValueLen)}
    /\ config \in IgnoreConfigs \cup {None}
    /\ node = Idle /\ spell_checker = Idle /\ env = Idle
    /\ input_files = Idle /\ nodes_misspelled = Idle /\ vocab_log = Idle
    /\ ret = Idle

ShouldIgnore ==
    /\ pc = "start"
    /\ ret' = should_ignore_spell_pv(prop, value, config)
    /\ pc' = "done"
    /\ UNCHANGED <<prop, value, config, node, spell_checker, env, input_files,
                   nodes_misspelled, vocab_log>>

SpecIgnore == InitIgnore /\ [][ShouldIgnore]_vars

\* the configuration in force: an omitted configuration is the empty one
Effective(c) == IF IsNone(c) THEN EmptyConfigMap ELSE c

TextOnly(c) == Effective(c)["spell_check_text_only"] = SetTo(TRUE)

EffectiveIgnoreSet(c) ==
    IF Effective(c)["spell_check_ignore_props"] = Unset
    THEN DEFAULT_IGNORE_SPELL_PROPS
    ELSE Effective(c)["spell_check_ignore_props"].val

CheckPropsSet(c) ==
    IF Effective(c)["spell_check_props"] = Unset
    THEN {} ELSE Effective(c)["spell_check_props"].val

BeginsWithQuote(s) == Len(s) >= 1 /\ s[1] = "\""

\* the property-level conditions of exemption
ExemptByProperty(p, c) ==
    \/ p = <<>>
    \/ (p # <<>> /\ p[1] = "#")
    \/ ~is_valid_property(p)
    \/ p \in EffectiveIgnoreSet(c)
    \/ (CheckPropsSet(c) # {} /\ p \notin CheckPropsSet(c))

\* the value-level conditions of exemption, but for the text-only one
ExemptByValue(s) ==
    \/ (Contains(s, <<"d", "c", "/">>) /\ \A i \in 1..Len(s) : s[i] \notin UpperChars)
    \/ Contains(s, <<"@">>)
    \/ SearchENumber(s)

\* C8: for every property, every string value (the empty string included)
\* and every configuration, should_ignore_spell_pv returns true exactly when
\* the property is empty, begins with '#', is invalid, is in the effective
\* ignore set, is outside a non-empty spell_check_props, or the value holds
\* 'dc/' and no capital, holds '@', does not begin with a double quote under
\* spell_check_text_only, or holds a word-bounded E followed by digits.
C8_ExemptIffListedCondition ==
    pc = "done" =>
        (ret = TRUE <=>
            \/ ExemptByProperty(prop, config)
            \/ ExemptByValue(value.val)
            \/ (TextOnly(config) /\ ~BeginsWithQuote(value.val)))

-----------------------------------------------------------------------------
(* The SpellChecker (the vocabulary) and the helpers of spell_check_pvs *)

\* A SpellChecker object: the set of words its dictionary recognizes.
Checker(words) == [words |-> words]

\* spell_checker.unknown(words): the words the dictionary does not hold
unknown(checker, words) == {w \in words : w \notin checker.words}

\* mcf_file_util.strip_namespace: 'dcid:x' -> 'x'
strip_namespace(s) ==
    IF \E i \in 1..Len(s) : s[i] = ":" /\ \A k \in 1..(i - 1) : IsWordChar(s[k])
    THEN LET i == CHOOSE i \in 1..Len(s) :
                      s[i] = ":" /\ \A k \in 1..(i - 1) : IsWordChar(s[k])
         IN  SubSeq(s, i + 1, Len(s))
    ELSE s

\* the code points of the ASCII letters, in order
AsciiLetters ==
    <<"A","B","C","D","E","F","G","H","I","J","K","L","M",
      "N","O","P","Q","R","S","T","U","V","W","X","Y","Z",
      "a","b","c","d","e","f","g","h","i","j","k","l","m",
      "n","o","p","q","r","s","t","u","v","w","x","y","z">>

Ord(c) == CHOOSE i \in 1..Len(AsciiLetters) : AsciiLetters[i] = c

\* a < b for Python strings of letters
RECURSIVE StrLess(_, _)
StrLess(a, b) ==
    IF b = <<>> THEN FALSE
    ELSE IF a = <<>> THEN TRUE
    ELSE IF Head(a) = Head(b) THEN StrLess(Tail(a), Tail(b))
    ELSE Ord(Head(a)) < Ord(Head(b))

\* sorted(words) of a set of strings
RECURSIVE sorted(_)
sorted(S) ==
    IF S = {} THEN <<>>
    ELSE LET m == CHOOSE x \in S : \A y \in S \ {x} : StrLess(x, y)
         IN  <<m>> \o sorted(S \ {m})

SeqToSet(q) == {q[i] : i \in 1..Len(q)}

\* d[k] = v on a dict kept as a sequence of <<key, value>> pairs
DictSet(d, k, v) ==
    IF \E i \in 1..Len(d) : d[i][1] = k
    THEN [i \in 1..Len(d) |-> IF d[i][1] = k THEN <<k, v>> ELSE d[i]]
    ELSE Append(d, <<k, v>>)

DictKeys(d) == {d[i][1] : i \in 1..Len(d)}

-----------------------------------------------------------------------------
(* spell_check_pvs *)

\* The state of the loop of spell_check_pvs: the two results, whether the
\* call has raised, and (for the record only) the items of the node for
\* which the vocabulary was queried or a string was tokenized.
PvsStart ==
    [raised |-> FALSE, misspelled_pvs |-> <<>>, words_misspelled |-> {},
     touched |-> {}]

\* a spell_check_pvs that stores an entry for every checked property, the
\* empty string when it has no unknown word
CheckPv_store_empty(acc, i, p, v, checker, cfg) ==
    LET text_only == config_get(cfg, "spell_check_text_only", FALSE) = TRUE
        prop_words ==
            IF ~text_only /\ unknown(checker, {p}) # {}
            THEN SeqToSet(get_words(p)) ELSE {}
        value_str == py_str(v)
        pv_words ==
            IF unknown(checker, {value_str}) # {}
            THEN prop_words \cup SeqToSet(get_words(strip_namespace(value_str)))
            ELSE prop_words
        error_words == IF pv_words # {} THEN unknown(checker, pv_words) ELSE {}
    IN  [acc EXCEPT
            !.words_misspelled = @ \cup error_words,
            !.misspelled_pvs = DictSet(@, p, JoinCommaSpace(sorted(error_words))),
            !.touched = @ \cup {i}]

\* lines 215-236 for the i-th item <<p, v>> of the node, which is not ignored
CheckPv(acc, i, p, v, checker, cfg) ==
    LET text_only == config_get(cfg, "spell_check_text_only", FALSE) = TRUE
        prop_words ==
            IF ~text_only /\ unknown(checker, {p}) # {}
            THEN SeqToSet(get_words(p)) ELSE {}
        value_str == py_str(v)
        pv_words ==
            IF unknown(checker, {value_str}) # {}
            THEN prop_words \cup SeqToSet(get_words(strip_namespace(value_str)))
            ELSE prop_words
        error_words == IF pv_words # {} THEN unknown(checker, pv_words) ELSE {}
    IN  IF error_words # {}
        THEN [acc EXCEPT
                !.words_misspelled = @ \cup error_words,
                !.misspelled_pvs = DictSet(@, p, JoinCommaSpace(sorted(error_words))),
                !.touched = @ \cup {i}]
        ELSE [acc EXCEPT !.touched = @ \cup {i}]

\* a spell_check_pvs that checks the ignored items too
RECURSIVE PvsLoop_no_ignore(_, _, _, _, _)
PvsLoop_no_ignore(acc, i, nd, checker, cfg) ==
    IF i > Len(nd) \/ acc.raised THEN acc
    ELSE IF IsNone(cfg) THEN [acc EXCEPT !.raised = TRUE]
    ELSE PvsLoop_no_ignore(CheckPv(acc, i, nd[i][1], nd[i][2], checker, cfg),
                           i + 1, nd, checker, cfg)

\* the loop of lines 209-236 from item i on
RECURSIVE PvsLoop(_, _, _, _, _)
PvsLoop(acc, i, nd, checker, cfg) ==
    IF i > Len(nd) \/ acc.raised THEN acc
    ELSE IF should_ignore_spell_pv(nd[i][1], nd[i][2], cfg)
         THEN PvsLoop(acc, i + 1, nd, checker, cfg)
    \* config.get on None raises AttributeError (line 216)
    ELSE IF IsNone(cfg) THEN [acc EXCEPT !.raised = TRUE]
    ELSE PvsLoop(CheckPv(acc, i, nd[i][1], nd[i][2], checker, cfg),
                 i + 1, nd, checker, cfg)

\* spell_check_pvs(dcid, node, spell_checker, config): dcid and counters only
\* feed the log and the counters
spell_check_pvs(nd, checker, cfg) == PvsLoop(PvsStart, 1, nd, checker, cfg)

-----------------------------------------------------------------------------
(* Specification SpecPvs: spell_check_pvs on every small node *)

MaxProps == 2

W_foo == <<"f","o","o">>
W_baar == <<"b","a","a","r">>
P_baarId == <<"b","a","a","r","I","d">>

\* a recognized name, a default-ignored name, a name with an unknown word
PvsProps == {P_name, P_url, P_baarId}

PvsValues ==
    {Str(<<>>),                                                  \* ''
     Str(W_foo),                                                 \* 'foo'
     Str(W_baar),                                                \* 'baar'
     Str(<<"\"","b","a","a","r"," ","Z","e","d","\"">>),         \* '"baar Zed"'
     Str(<<"\"","f","o","o","\"">>),                             \* '"foo"'
     Str(<<"d","c","/","a","b","c">>),                           \* 'dc/abc'
     Str(<<"d","c","i","d",":","f","o","o","B","a","a","r">>),   \* 'dcid:fooBaar'
     List(<<W_baar>>)}                                           \* ['baar']

\* the dicts of at most n items: sequences of pairs with distinct keys
Nodes(props, values, n) ==
    {nd \in UNION {[1..k -> props \X values] : k \in 0..n} :
        \A i, j \in 1..Len(nd) : i # j => nd[i][1] # nd[j][1]}

PvsConfigs ==
    {None,
     EmptyConfigMap,
     [EmptyConfigMap EXCEPT !["spell_check_text_only"] = SetTo(TRUE)],
     [EmptyConfigMap EXCEPT !["spell_check_props"] = SetTo({P_name, P_url})],
     [EmptyConfigMap EXCEPT !["spell_check_ignore_props"] = SetTo({})]}

PvsCheckers ==
    {Checker({W_foo, P_name}), Checker({W_foo, P_name, W_baar})}

InitPvs ==
    /\ pc = "start"
    /\ node \in Nodes(PvsProps, PvsValues, MaxProps)
    /\ config \in PvsConfigs
    /\ spell_checker \in PvsCheckers
    /\ prop = Idle /\ value = Idle /\ env = Idle
    /\ input_files = Idle /\ nodes_misspelled = Idle /\ vocab_log = Idle
    /\ ret = Idle

SpellCheckPvs ==
    /\ pc = "start"
    /\ ret' = spell_check_pvs(node, spell_checker, config)
    /\ pc' = "done"
    /\ UNCHANGED <<prop, value, config, node, spell_checker, env, input_files,
                   nodes_misspelled, vocab_log>>

SpecPvs == InitPvs /\ [][SpellCheckPvs]_vars

\* the call has returned (it did not raise)
PvsReturned == pc = "done" /\ ~ret.raised

\* the i-th item of the node is exempt
Exempt(i) == should_ignore_spell_pv(node[i][1], node[i][2], config)

Recognized(s) == s \in spell_checker.words

\* the candidate words of the i-th item: the words of the property name
\* (unless text-only, or the name is recognized as a whole) and the words of
\* the value without its namespace (unless the value is recognized as a whole)
Candidates(i) ==
    (IF ~TextOnly(config) /\ ~Recognized(node[i][1])
     THEN SeqToSet(get_words(node[i][1])) ELSE {})
    \cup
    (IF ~Recognized(py_str(node[i][2]))
     THEN SeqToSet(get_words(strip_namespace(py_str(node[i][2])))) ELSE {})

ErrorWords(i) == {w \in Candidates(i) : ~Recognized(w)}

\* the pieces of s between the separators ", "
RECURSIVE SplitCommaSpace(_, _)
SplitCommaSpace(s, cur) ==
    IF s = <<>> THEN <<cur>>
    ELSE IF Len(s) >= 2 /\ s[1] = "," /\ s[2] = " "
         THEN <<cur>> \o SplitCommaSpace(SubSeq(s, 3, Len(s)), <<>>)
    ELSE SplitCommaSpace(Tail(s), Append(cur, Head(s)))

ListedWords(e) == SplitCommaSpace(e, <<>>)

\* e is the non-empty, strictly increasing (sorted, duplicate-free),
\* comma-joined list of exactly the words of E
IsSortedListOf(e, E) ==
    LET q == ListedWords(e)
    IN  /\ e # <<>>
        /\ \A k \in 1..Len(q) : Len(q[k]) > 0
        /\ \A j, k \in 1..Len(q) : j < k => StrLess(q[j], q[k])
        /\ SeqToSet(q) = E

\* C1: with spell_check_text_only enabled, every word of every per-property
\* error list was tokenized from a value of that property whose string form
\* begins with a double quote.
C1_TextOnlyReportsQuotedValuesOnly ==
    (PvsReturned /\ TextOnly(config)) =>
        \A k \in 1..Len(ret.misspelled_pvs) :
            \A w \in SeqToSet(ListedWords(ret.misspelled_pvs[k][2])) :
                \E i \in 1..Len(node) :
                    /\ node[i][1] = ret.misspelled_pvs[k][1]
                    /\ BeginsWithQuote(py_str(node[i][2]))
                    /\ w \in SeqToSet(get_words(py_str(node[i][2])))

\* C6: an exempt item contributes nothing: its property is no key of the
\* per-property error map, neither its name nor its value is tokenized or
\* queried, and the node-level word set is the union of the error words of
\* the items that are not exempt.
C6_ExemptContributesNothing ==
    PvsReturned =>
        /\ \A i \in 1..Len(node) :
               Exempt(i) => /\ node[i][1] \notin DictKeys(ret.misspelled_pvs)
                            /\ i \notin ret.touched
        /\ ret.words_misspelled =
               UNION {ErrorWords(i) : i \in {j \in 1..Len(node) : ~Exempt(j)}}

\* C6 witness: an exempt item whose value holds an unknown word sits beside
\* a checked item that was reported.
C6_Witness ==
    /\ PvsReturned
    /\ \E i, j \in 1..Len(node) :
           /\ Exempt(i) /\ ErrorWords(i) # {}
           /\ ~Exempt(j) /\ node[j][1] \in DictKeys(ret.misspelled_pvs)

\* C7: every entry of the per-property error map is the non-empty, sorted,
\* duplicate-free, comma-joined list of exactly the unrecognized candidate
\* words of its property, and a property with no unrecognized candidate word
\* has no entry.
C7_EntryIsSortedUnknownCandidates ==
    PvsReturned =>
        /\ \A k \in 1..Len(ret.misspelled_pvs) :
               /\ \A j \in 1..Len(ret.misspelled_pvs) :
                      j # k => ret.misspelled_pvs[j][1] # ret.misspelled_pvs[k][1]
               /\ \E i \in 1..Len(node) :
                      /\ node[i][1] = ret.misspelled_pvs[k][1]
                      /\ IsSortedListOf(ret.misspelled_pvs[k][2], ErrorWords(i))
        /\ \A i \in 1..Len(node) :
               IF ErrorWords(i) = {}
               THEN node[i][1] \notin DictKeys(ret.misspelled_pvs)
               ELSE Exempt(i) \/ node[i][1] \in DictKeys(ret.misspelled_pvs)

\* C7 witness: one property is reported with two words, listed in sorted
\* order and not in the order of the text, while another checked property
\* has no unknown word and no entry.
C7_Witness ==
    /\ PvsReturned
    /\ \E k \in 1..Len(ret.misspelled_pvs) :
           ret.misspelled_pvs[k][2] = <<"Z","e","d",","," ","b","a","a","r">>
    /\ \E i \in 1..Len(node) :
           /\ ~Exempt(i) /\ Candidates(i) # {} /\ ErrorWords(i) = {}
           /\ node[i][1] \notin DictKeys(ret.misspelled_pvs)

\* C10: called with config = None on a node with an item that is not
\* exempt, spell_check_pvs does not raise and returns what it returns for an
\* empty configuration.
C10_NoneConfigIsEmptyConfig ==
    (pc = "done" /\ IsNone(config) /\ \E i \in 1..Len(node) : ~Exempt(i)) =>
        /\ ~ret.raised
        /\ ret = spell_check_pvs(node, spell_checker, EmptyConfigMap)

-----------------------------------------------------------------------------
(* get_spell_checker *)

\* _DEFAULT_ALLOWLIST: words_allowlist.txt beside the script
DEFAULT_ALLOWLIST == "words_allowlist.txt"

W_dcs == <<"d","c","s">>
W_dcid == <<"d","c","i","d">>
W_zed == <<"z","e","d">>

\* the default of config.get('spell_allow_words', ...)
DEFAULT_ALLOW_WORDS == List(<<W_dcs, W_dcid>>)

\* file_util.file_get_matching(pattern): the files the file system e has for it
file_get_matching(e, pattern) == e.fs[pattern]

\* word_frequency.load_text_file(file): the words of the file become recognized
load_text_file(checker, file) == Checker(checker.words \cup SeqToSet(file))

\* word_frequency.load_words(words)
load_words(checker, words) == Checker(checker.words \cup SeqToSet(words))

\* word_frequency.unique_words
unique_words(checker) == Cardinality(checker.words)

\* the loop of lines 348-352
RECURSIVE LoadFiles(_, _)
LoadFiles(checker, files) ==
    IF files = <<>> THEN checker
    ELSE LoadFiles(load_text_file(checker, Head(files)), Tail(files))

get_default_spell_config(flags) ==
    [EmptyConfigMap EXCEPT
        !["spell_allowlist"] =
            IF flags.spell_allowlist # "" THEN SetTo(flags.spell_allowlist) ELSE Unset,
        !["spell_check_output"] =
            IF flags.spell_error_output # "" THEN SetTo(flags.spell_error_output) ELSE Unset,
        !["spell_check_text_only"] =
            IF flags.spell_check_text_only THEN SetTo(TRUE) ELSE Unset,
        !["spell_check_ignore_props"] = SetTo(DEFAULT_IGNORE_SPELL_PROPS)]

\* lines 354-357: the inline words, a list or a comma-separated str
LoadAllowWords(checker, allow_words) ==
    IF allow_words.val = <<>> THEN checker
    ELSE IF IsStr(allow_words)
         THEN load_words(checker, SplitOn(allow_words.val, ",", <<>>))
         ELSE load_words(checker, allow_words.val)

\* a get_spell_checker whose inline words default to none
get_spell_checker_no_default_words(cfg, e) ==
    LET c == IF IsFalsy(cfg) THEN get_default_spell_config(e.flags) ELSE cfg
        allowlist_file == config_get(c, "spell_allowlist", DEFAULT_ALLOWLIST)
        allow_words == config_get(c, "spell_allow_words", List(<<>>))
        base == Checker(e.lexicon)
        allow_files == file_get_matching(e, allowlist_file)
        loaded == LoadAllowWords(LoadFiles(base, allow_files), allow_words)
    IN  [checker |-> loaded,
         num_words |-> unique_words(loaded) - unique_words(base),
         loads |-> Len(allow_files) + (IF allow_words.val # <<>> THEN 1 ELSE 0)]

\* get_spell_checker(config, counters): the SpellChecker built, the count
\* reported as 'spell-allowlist-words', and (for the record) the number of
\* load_text_file and load_words calls made on it
get_spell_checker(cfg, e) ==
    LET c == IF IsFalsy(cfg) THEN get_default_spell_config(e.flags) ELSE cfg
        allowlist_file == config_get(c, "spell_allowlist", DEFAULT_ALLOWLIST)
        allow_words == config_get(c, "spell_allow_words", DEFAULT_ALLOW_WORDS)
        base == Checker(e.lexicon)
        allow_files == file_get_matching(e, allowlist_file)
        loaded == LoadAllowWords(LoadFiles(base, allow_files), allow_words)
    IN  [checker |-> loaded,
         num_words |-> unique_words(loaded) - unique_words(base),
         loads |-> Len(allow_files) + (IF allow_words.val # <<>> THEN 1 ELSE 0)]

-----------------------------------------------------------------------------
(* Specification SpecChecker: get_spell_checker on small file systems *)

MaxAllowFiles == 1

\* the allow-list patterns: the default one, one more, one matching nothing
AllowGlobs == {DEFAULT_ALLOWLIST, "extra*.txt", "none*.txt"}

\* allow-list files, as the words they hold
AllowFilePool == {<<W_baar>>, <<W_zed, W_dcs>>}

SeqsUpTo(S, n) == UNION {[1..k -> S] : k \in 0..n}

FileSystems ==
    {[g \in AllowGlobs |->
        IF g = DEFAULT_ALLOWLIST THEN d ELSE IF g = "extra*.txt" THEN x ELSE <<>>] :
        d \in SeqsUpTo(AllowFilePool, MaxAllowFiles),
        x \in SeqsUpTo(AllowFilePool, MaxAllowFiles)}

Lexicons == {{W_foo, P_name}, {W_foo, P_name, W_dcs}, {W_foo, P_name, W_dcs, W_dcid}}

FlagSets ==
    {[spell_allowlist |-> a, spell_error_output |-> "", spell_check_text_only |-> FALSE] :
        a \in {DEFAULT_ALLOWLIST, "none*.txt"}}

CheckerConfigs ==
    {[EmptyConfigMap EXCEPT !["spell_allowlist"] = al, !["spell_allow_words"] = aw] :
        al \in {Unset, SetTo("extra*.txt"), SetTo("none*.txt")},
        aw \in {Unset, SetTo(List(<<>>)), SetTo(List(<<W_zed>>)),
                SetTo(Str(<<"z","e","d",",","d","c","s">>))}}

InitChecker ==
    /\ pc = "start"
    /\ config \in CheckerConfigs \cup {None}
    /\ env \in {[lexicon |-> l, fs |-> f, flags |-> fl] :
                    l \in Lexicons, f \in FileSystems, fl \in FlagSets}
    /\ prop = Idle /\ value = Idle /\ node = Idle /\ spell_checker = Idle
    /\ input_files = Idle /\ nodes_misspelled = Idle /\ vocab_log = Idle
    /\ ret = Idle

GetSpellChecker ==
    /\ pc = "start"
    /\ ret' = get_spell_checker(config, env)
    /\ pc' = "done"
    /\ UNCHANGED <<prop, value, config, node, spell_checker, env, input_files,
                   nodes_misspelled, vocab_log>>

SpecChecker == InitChecker /\ [][GetSpellChecker]_vars

\* the allow-list pattern in force: the configured one, else the default;
\* an omitted configuration takes it from the flags
AllowlistInForce ==
    IF IsNone(config)
    THEN (IF env.flags.spell_allowlist # "" THEN env.flags.spell_allowlist
          ELSE DEFAULT_ALLOWLIST)
    ELSE IF config["spell_allowlist"] = Unset THEN DEFAULT_ALLOWLIST
    ELSE config["spell_allowlist"].val

\* the pattern matches no file and no inline words are configured
NoFileNoInlineWords ==
    /\ env.fs[AllowlistInForce] = <<>>
    /\ (IsNone(config) \/ config["spell_allow_words"] = Unset)

\* C2 as stated: when the allow-list pattern matches no file and
\* spell_allow_words is unset, the SpellChecker returned recognizes exactly
\* the base lexicon and the count of added words is 0.
C2_Original_BaseLexiconUnmodified ==
    (pc = "done" /\ NoFileNoInlineWords) =>
        /\ ret.checker.words = env.lexicon
        /\ ret.num_words = 0

\* C2 amended: when the allow-list pattern matches no file and
\* spell_allow_words is unset, the SpellChecker returned recognizes exactly
\* the base lexicon and the two built-in words 'dcs' and 'dcid', and the
\* count of added words is the number of those two that the base lexicon
\* lacks.
C2_BaseLexiconPlusDefaultWords ==
    (pc = "done" /\ NoFileNoInlineWords) =>
        /\ ret.checker.words = env.lexicon \cup {W_dcs, W_dcid}
        /\ ret.num_words = Cardinality({W_dcs, W_dcid} \ env.lexicon)

\* C2 witness: no file matched, no inline words configured, and the built-in
\* words were added to a lexicon that lacked both.
C2_Witness ==
    /\ pc = "done" /\ NoFileNoInlineWords
    /\ ~IsNone(config)
    /\ W_dcid \notin env.lexicon /\ W_dcs \notin env.lexicon
    /\ ret.num_words = 2

-----------------------------------------------------------------------------
(* spell_check_nodes and spell_check_mcf *)

\* the loop of lines 267-276 from node i on: the errors per dcid, and the
\* number of items for which the vocabulary was queried
RECURSIVE NodesLoop(_, _, _, _, _)
NodesLoop(acc, i, nodes, checker, cfg) ==
    IF i > Len(nodes) THEN acc
    ELSE LET r == spell_check_pvs(nodes[i][2], checker, cfg)
             counted == [acc EXCEPT !.queries = @ + Cardinality(r.touched)]
         IN  NodesLoop(
                 IF r.words_misspelled # {}
                 THEN [counted EXCEPT
                          !.node_errors = DictSet(@, nodes[i][1], r.misspelled_pvs)]
                 ELSE counted,
                 i + 1, nodes, checker, cfg)

\* a spell_check_nodes that builds a SpellChecker of its own on every call
spell_check_nodes_rebuild(nodes, cfg, checker, e) ==
    LET c == IF IsFalsy(cfg) THEN EmptyConfigMap ELSE cfg
        built == get_spell_checker(c, e)
        done == NodesLoop([node_errors |-> <<>>, queries |-> 0], 1, nodes,
                          built.checker, c)
    IN  [node_errors |-> done.node_errors, queries |-> done.queries,
         constructions |-> 1, loads |-> built.loads]

\* spell_check_nodes(nodes, config, counters, spell_checker): the errors per
\* dcid, and what was done to a vocabulary on the way
spell_check_nodes(nodes, cfg, checker, e) ==
    LET c == IF IsFalsy(cfg) THEN EmptyConfigMap ELSE cfg
        build == IsNone(checker)
        built == IF build THEN get_spell_checker(c, e)
                 ELSE [checker |-> checker, num_words |-> 0, loads |-> 0]
        done == NodesLoop([node_errors |-> <<>>, queries |-> 0], 1, nodes,
                          built.checker, c)
    IN  [node_errors |-> done.node_errors, queries |-> done.queries,
         constructions |-> IF build THEN 1 ELSE 0, loads |-> built.loads]

\* error records numbered from 0 again in every input file
AddRecord_per_file(d, mcf_file, dcid, p, errors) ==
    DictSet(d, Cardinality({i \in 1..Len(d) : d[i][2].file = mcf_file}),
            [file |-> mcf_file, dcid |-> dcid, property |-> p, spell_errors |-> errors])

\* lines 317-322: nodes_misspelled[len(nodes_misspelled)] = {...}
AddRecord(d, mcf_file, dcid, p, errors) ==
    DictSet(d, Len(d),
            [file |-> mcf_file, dcid |-> dcid, property |-> p, spell_errors |-> errors])

\* line 316: the loop over error_pvs.items() from entry k on
RECURSIVE AddNodeRecords(_, _, _, _, _)
AddNodeRecords(d, mcf_file, dcid, error_pvs, k) ==
    IF k > Len(error_pvs) THEN d
    ELSE AddNodeRecords(
             AddRecord(d, mcf_file, dcid, error_pvs[k][1], error_pvs[k][2]),
             mcf_file, dcid, error_pvs, k + 1)

\* line 315: the loop over node_errors.items() from entry j on
RECURSIVE AddFileRecords(_, _, _, _)
AddFileRecords(d, mcf_file, node_errors, j) ==
    IF j > Len(node_errors) THEN d
    ELSE AddFileRecords(
             AddNodeRecords(d, mcf_file, node_errors[j][1], node_errors[j][2], 1),
             mcf_file, node_errors, j + 1)

\* what a call hands to its caller: a value, or an exception
Returns(v) == [raised |-> FALSE, returned |-> TRUE, val |-> v]
Raises == [raised |-> TRUE, returned |-> FALSE, val |-> <<>>]

\* a spell_check_mcf that swallows the failure of the writer
SaveAndReturn_swallow(nm, cfg, e) == Returns(nm)

\* lines 325-334: file_util.file_write_py_dict raises when the writer fails,
\* and the exception leaves spell_check_mcf before its return statement
SaveAndReturn(nm, cfg, e) ==
    LET output_file == config_get(cfg, "spell_check_output", "")
    IN  IF nm # <<>> /\ output_file # "" /\ e.writer_fails
        THEN Raises
        ELSE Returns(nm)

-----------------------------------------------------------------------------
(* Specification Spec: spell_check_mcf over small sets of input files *)

\* at most MaxFiles input files, holding at most MaxNodes nodes in all
MaxFiles == 2
MaxNodes == 3

\* a node without error, one with two reported properties (one when the
\* allow-list holds 'baar'), one with an ignored property before a reported
\* one
NodePool ==
    {<<<<P_name, Str(W_foo)>>>>,
     <<<<P_name, Str(W_baar)>>, <<P_baarId, Str(W_foo)>>>>,
     <<<<P_url, Str(W_baar)>>, <<P_name, Str(W_baar)>>>>}

Dcid(j) == <<"dc/n", j>>
FileName(i) == <<"file", i>>

\* load_mcf_nodes: the dicts of at most n nodes, keyed by dcid
NodeDicts(n) ==
    {[j \in 1..Len(q) |-> <<Dcid(j), q[j]>>] : q \in SeqsUpTo(NodePool, n)}

\* the lists of at most k dicts that hold at most n nodes in all
RECURSIVE DictLists(_, _)
DictLists(k, n) ==
    IF k = 0 THEN {<<>>}
    ELSE {<<>>} \cup
         UNION {{<<d>> \o rest : rest \in DictLists(k - 1, n - Len(d))} :
                    d \in NodeDicts(n)}

\* file_get_matching(input_mcf): at most MaxFiles input files
InputFileLists ==
    {[i \in 1..Len(q) |-> [name |-> FileName(i), nodes |-> q[i]]] :
        q \in DictLists(MaxFiles, MaxNodes)}

McfConfigs ==
    {None, [EmptyConfigMap EXCEPT !["spell_check_output"] = SetTo("errors.py")]}

McfFileSystems ==
    {[g \in AllowGlobs |-> IF g = DEFAULT_ALLOWLIST THEN d ELSE <<>>] :
        d \in {<<>>, <<<<W_baar>>>>}}

Init ==
    /\ pc = "start"
    /\ config \in McfConfigs
    /\ env \in {[lexicon |-> {W_foo, P_name},
                 fs |-> f,
                 flags |-> [spell_allowlist |-> DEFAULT_ALLOWLIST,
                            spell_error_output |-> "",
                            spell_check_text_only |-> FALSE],
                 mcf |-> m,
                 writer_fails |-> w] :
                    f \in McfFileSystems, m \in InputFileLists, w \in BOOLEAN}
    /\ env.writer_fails => ~IsNone(config)
    /\ spell_checker = None
    /\ input_files = <<>>
    /\ nodes_misspelled = <<>>
    /\ vocab_log = [constructions |-> 0, loads |-> 0, queries |-> 0]
    /\ prop = Idle /\ value = Idle /\ node = Idle
    /\ ret = Idle

\* lines 296-307: the configuration, the SpellChecker, the list of input files
Start ==
    /\ pc = "start"
    /\ LET c == IF IsFalsy(config) THEN EmptyConfigMap ELSE config
           built == get_spell_checker(c, env)
       IN  /\ config' = c
           /\ spell_checker' = built.checker
           /\ vocab_log' = [constructions |-> 1, loads |-> built.loads, queries |-> 0]
    /\ input_files' = env.mcf
    /\ nodes_misspelled' = <<>>
    /\ pc' = "files"
    /\ UNCHANGED <<prop, value, node, env, ret>>

\* lines 308-324: one turn of the loop over the input files
CheckFile ==
    /\ pc = "files"
    /\ input_files # <<>>
    /\ LET mcf_file == Head(input_files)
           r == spell_check_nodes(mcf_file.nodes, config, spell_checker, env)
       IN  /\ nodes_misspelled' =
                  AddFileRecords(nodes_misspelled, mcf_file.name, r.node_errors, 1)
           /\ vocab_log' =
                  [constructions |-> vocab_log.constructions + r.constructions,
                   loads |-> vocab_log.loads + r.loads,
                   queries |-> vocab_log.queries + r.queries]
    /\ input_files' = Tail(input_files)
    /\ UNCHANGED <<pc, prop, value, config, node, spell_checker, env, ret>>

\* lines 325-334: the report is written, the records are returned
Return ==
    /\ pc = "files"
    /\ input_files = <<>>
    /\ ret' = SaveAndReturn(nodes_misspelled, config, env)
    /\ pc' = "done"
    /\ UNCHANGED <<prop, value, config, node, spell_checker, env, input_files,
                   nodes_misspelled, vocab_log>>

Next == Start \/ CheckFile \/ Return

Spec == Init /\ [][Next]_vars

\* the writer was called and failed
WriterFailed ==
    /\ pc = "done"
    /\ nodes_misspelled # <<>>
    /\ config["spell_check_output"] # Unset
    /\ env.writer_fails

\* C3 as stated: when at least one record was produced, an output is
\* configured and the writer fails, the failure reaches the caller and the
\* records are still returned to the caller.
C3_Original_FailurePropagatedAndRecordsReturned ==
    WriterFailed => (ret.raised /\ ret.returned /\ ret.val = nodes_misspelled)

\* C3 amended: when at least one record was produced, an output is
\* configured and the writer fails, the failure reaches the caller and
\* nothing is returned: the records do not reach the caller.
C3_FailurePropagatedNothingReturned ==
    WriterFailed => (ret.raised /\ ~ret.returned)

\* C3 witness: the writer failed on a report of at least two records.
C3_Witness == WriterFailed /\ Len(nodes_misspelled) >= 2

\* the per-property error maps spell_check_pvs gives, per file and node
ErrorMaps ==
    [f \in 1..Len(env.mcf) |->
        [n \in 1..Len(env.mcf[f].nodes) |->
            spell_check_pvs(env.mcf[f].nodes[n][2], spell_checker, config).misspelled_pvs]]

\* one <<file, node, entry>> for every entry of every error map
EntriesOf(maps) ==
    {t \in (1..Len(maps)) \X (1..MaxNodes) \X (1..MaxProps) :
        /\ t[2] <= Len(maps[t[1]])
        /\ t[3] <= Len(maps[t[1]][t[2]])}

\* file order, then node order, then property order
EntryBefore(t, u) ==
    \/ t[1] < u[1]
    \/ (t[1] = u[1] /\ t[2] < u[2])
    \/ (t[1] = u[1] /\ t[2] = u[2] /\ t[3] <= u[3])

\* C4: after the last file the records are, in file, node and property
\* order, exactly one per entry of the error maps spell_check_pvs gave (none
\* for a node without misspelled word, none overwritten or repeated), and
\* they are what spell_check_mcf returns.
C4_OneRecordPerErrorEntryInOrder ==
    ((pc = "files" /\ input_files = <<>>) \/ pc = "done") =>
        LET maps == ErrorMaps
            expected == EntriesOf(maps)
        IN  /\ Len(nodes_misspelled) = Cardinality(expected)
            /\ \A t \in expected :
                   LET rank == Cardinality({u \in expected : EntryBefore(u, t)})
                       entry == maps[t[1]][t[2]][t[3]]
                   IN  nodes_misspelled[rank] =
                           <<rank - 1,
                             [file |-> env.mcf[t[1]].name,
                              dcid |-> env.mcf[t[1]].nodes[t[2]][1],
                              property |-> entry[1],
                              spell_errors |-> entry[2]]>>
            /\ (pc = "done" /\ ret.returned) => ret.val = nodes_misspelled

\* C4 witness: two files hold a node of the same dcid with two reported
\* properties each, the first file also a node without misspelled word, and
\* the four records were returned.
C4_Witness ==
    /\ pc = "done" /\ ret.returned
    /\ Len(env.mcf) = 2
    /\ Len(env.mcf[1].nodes) = 2 /\ Len(env.mcf[2].nodes) = 1
    /\ Len(ErrorMaps[1][1]) = 2 /\ Len(ErrorMaps[1][2]) = 0
    /\ Len(ErrorMaps[2][1]) = 2
    /\ Len(ret.val) = 4

\* C5: in every run one SpellChecker is built, and once the vocabulary has
\* been queried it is never loaded or built again: every load precedes the
\* first query.
C5_BuiltOnceLoadedBeforeQueries ==
    /\ [](vocab_log.constructions <= 1)
    /\ [](pc # "start" => vocab_log.constructions = 1)
    /\ [][vocab_log.queries > 0 =>
             /\ vocab_log'.loads = vocab_log.loads
             /\ vocab_log'.constructions = vocab_log.constructions
             /\ spell_checker' = spell_checker]_vars

\* C5 witness: the vocabulary was loaded from a file and from the inline
\* words, then queried for the nodes of two files.
C5_Witness ==
    /\ pc = "done"
    /\ Len(env.mcf) = 2
    /\ \A f \in 1..2 : Len(env.mcf[f].nodes) >= 1
    /\ vocab_log.loads = 2
    /\ vocab_log.queries >= 2

=============================================================================
